---------------------------- MODULE Spec2Model ----------------------------
(***************************************************************************)
(* A model of square_images.py: the batch driver (main), the per-file      *)
(* pipeline (process_image), the metadata helpers (exif_date, dms_to_deg,  *)
(* exif_city) and the label builder (clamp_city).                          *)
(*                                                                         *)
(* A Python str is a sequence of one-glyph strings; the em dash and the    *)
(* ellipsis are the glyphs "emdash" and "ellipsis".  A Python dict is a    *)
(* function whose DOMAIN is its set of keys.  Widths are whole pixels.     *)
(***************************************************************************)
EXTENDS Integers, Sequences, FiniteSets, TLC

VARIABLES
    geolocator,   \* TRUE when the geopy import succeeded, FALSE when geolocator is None
    FONT,         \* the font loaded once at start-up: glyph advances, ascent, descent
    listing,      \* os.listdir(INPUT_DIR), in the order the file system gives it
    pc,           \* the position of the program
    files,        \* main's sorted list of file names
    idx,          \* 1-based position of main's for-loop in files
    written,      \* OUTPUT_DIR: the file names saved so far, in the order they were saved
    failed,       \* the file whose Image.open raised (None while none has)
    img,          \* process_image's img: its size and its embedded metadata block
    square_size,  \* process_image's square_size
    bg,           \* process_image's canvas: its size, the text drawn on it, the anchor
    date,         \* process_image's date
    city,         \* process_image's city
    label,        \* process_image's label
    response,     \* what geolocator.reverse answered for this image
    calls,        \* the (lat, lon) queries made to geolocator.reverse for this image
    max_width,    \* process_image's max_width, clamp_city's parameter
    trimmed,      \* clamp_city's trimmed
    tried,        \* the candidates clamp_city has measured in its loop, in order
    ret,          \* clamp_city's return value
    text,         \* process_image's text
    saved,        \* the canvas handed to bg.save by this call of process_image
    log           \* the steps this call of process_image has taken, in order

vars == <<geolocator, FONT, listing, pc, files, idx, written, failed, img,
          square_size, bg, date, city, label, response, calls, max_width,
          trimmed, tried, ret, text, saved, log>>

(***************************************************************************)
(* Bounds of the label-builder specification SpecClamp.                    *)
(***************************************************************************)
MaxCityLen == 4
MaxAdvance == 2
MaxWidthPx == 10

(***************************************************************************)
(* Configuration.                                                          *)
(***************************************************************************)
OUTPUT_SIZE == 2048
TEXT_SIZE == 72
TEXT_MARGIN == 24
\* MAX_TEXT_WIDTH_RATIO = 0.7, as the fraction 7 / 10
MAX_TEXT_WIDTH_RATIO_NUM == 7
MAX_TEXT_WIDTH_RATIO_DEN == 10

MONTHS_NL ==
    <<  <<"j","a","n">>, <<"f","e","b">>, <<"m","r","t">>, <<"a","p","r">>,
        <<"m","e","i">>, <<"j","u","n">>, <<"j","u","l">>, <<"a","u","g">>,
        <<"s","e","p">>, <<"o","k","t">>, <<"n","o","v">>, <<"d","e","c">> >>

(***************************************************************************)
(* Python values.                                                          *)
(***************************************************************************)
\* None: a value that is no str (no str holds the glyph "None")
None == <<"None">>
\* the outcome of an expression that raised an exception
Raise == <<"Raise">>
\* Python's truth value of an Optional[str]
truthy(x) == x # None /\ x # <<>>
\* the value of "a or b"
py_or(a, b) == IF truthy(a) THEN a ELSE b
\* d.get(k)
dict_get(d, k) == IF k \in DOMAIN d THEN d[k] ELSE None
\* try: body / except Exception: default
except_Exception_propagate(r, default) == r
except_Exception(r, default) == IF r = Raise THEN default ELSE r

(***************************************************************************)
(* The font: draw.textlength(text, font=FONT) and FONT.getmetrics().       *)
(***************************************************************************)
GlyphClasses == {"narrow", "wide", "dash", "ellipsis"}
NarrowGlyphs == {" ", "i", "j", "l", "t", "r", "f", "1", "-", "."}
GlyphClass(g) ==
    CASE g = "emdash" -> "dash"
      [] g = "ellipsis" -> "ellipsis"
      [] g \in NarrowGlyphs -> "narrow"
      [] OTHER -> "wide"

RECURSIVE textlength(_)
textlength(s) ==
    IF s = <<>> THEN 0
    ELSE FONT.advance[GlyphClass(Head(s))] + textlength(Tail(s))

\* a fixed-pitch font set at TEXT_SIZE pixels, every glyph advancing by adv
Monospace(adv, ascent, descent) ==
    [advance |-> [c \in GlyphClasses |-> adv], ascent |-> ascent, descent |-> descent]

\* the fonts FONT_PATH may name, set at TEXT_SIZE pixels: fixed-pitch,
\* advancing 0.6 em (Menlo, DejaVu Sans Mono), 1 em, 2 em or 4 em, with
\* ascent + descent between 1 em and 2 em
Fonts ==
    { Monospace((TEXT_SIZE * 3) \div 5, (TEXT_SIZE * 9) \div 10, TEXT_SIZE \div 4),
      Monospace(TEXT_SIZE, TEXT_SIZE, TEXT_SIZE \div 2),
      Monospace(2 * TEXT_SIZE, TEXT_SIZE, TEXT_SIZE),
      Monospace(4 * TEXT_SIZE, TEXT_SIZE, TEXT_SIZE \div 4) }

(***************************************************************************)
(* clamp_city(draw, date, city, max_width), called with date = label[1]    *)
(* and city = label[2] (Python's label[0] and label[1]).                   *)
(***************************************************************************)
\* f"{date} — {city}"
base(d, c) == d \o <<" ", "emdash", " ">> \o c
\* f"{date} — {trimmed}{ellipsis}"
candidate(d, t) == d \o <<" ", "emdash", " ">> \o t \o <<"ellipsis">>
\* draw.textlength(s, font=FONT) <= max_width
fits_inverted(s, w) == textlength(s) > w
fits(s, w) == textlength(s) <= w
\* trimmed[:-1]
drop_last_two(s) == SubSeq(s, 1, Len(s) - 2)
drop_last(s) == SubSeq(s, 1, Len(s) - 1)
\* while len(trimmed) > 1
loop_test(t) == Len(t) > 1

ClampFrame ==
    UNCHANGED <<geolocator, FONT, listing, files, idx, written, failed, img,
                square_size, bg, date, city, label, response, calls,
                max_width, text, saved>>

\* lines 95-100: the untruncated label is returned when it fits
clamp_city_base ==
    /\ pc = "clamp_city"
    /\ IF fits(base(label[1], label[2]), max_width)
       THEN /\ ret' = base(label[1], label[2])
            /\ pc' = "clamp_city_return"
            /\ UNCHANGED trimmed
       ELSE /\ trimmed' = label[2]
            /\ pc' = "clamp_city_loop"
            /\ UNCHANGED ret
    /\ UNCHANGED <<tried, log>>
    /\ ClampFrame

\* lines 102-106: one pass of the while loop
clamp_city_trim ==
    /\ pc = "clamp_city_loop"
    /\ loop_test(trimmed)
    /\ trimmed' = drop_last(trimmed)
    /\ tried' = Append(tried, candidate(label[1], trimmed'))
    /\ IF fits(candidate(label[1], trimmed'), max_width)
       THEN /\ ret' = candidate(label[1], trimmed')
            /\ pc' = "clamp_city_return"
       ELSE /\ pc' = "clamp_city_loop"
            /\ UNCHANGED ret
    /\ UNCHANGED log
    /\ ClampFrame

\* line 108: the loop ended without a fitting candidate
clamp_city_last_resort ==
    /\ pc = "clamp_city_loop"
    /\ ~ loop_test(trimmed)
    /\ ret' = label[1]
    /\ pc' = "clamp_city_return"
    /\ UNCHANGED <<trimmed, tried, log>>
    /\ ClampFrame

(***************************************************************************)
(* exif_date(exif).  A DateTimeOriginal value is [decodable, fields]:      *)
(* fields is <<Y, m, d, H, M, S>> for a text of the shape "Y:m:d H:M:S",   *)
(* and any other sequence for a text of another shape.                     *)
(***************************************************************************)
is_leap(y) == (y % 4 = 0 /\ y % 100 # 0) \/ y % 400 = 0
days_in_month(y, m) ==
    IF m = 2 THEN (IF is_leap(y) THEN 29 ELSE 28)
    ELSE IF m \in {4, 6, 9, 11} THEN 30 ELSE 31

\* datetime.strptime(raw, "%Y:%m:%d %H:%M:%S") returns (does not raise ValueError)
strptime_ok(f) ==
    /\ Len(f) = 6
    /\ f[1] \in 1..9999
    /\ f[2] \in 1..12
    /\ f[3] \in 1..days_in_month(f[1], f[2])
    /\ f[4] \in 0..23
    /\ f[5] \in 0..59
    /\ f[6] \in 0..59

\* f"{n}" for n >= 0
DigitGlyphs == <<"0", "1", "2", "3", "4", "5", "6", "7", "8", "9">>
RECURSIVE format_int(_)
format_int(n) ==
    IF n < 10 THEN <<DigitGlyphs[n + 1]>>
    ELSE format_int(n \div 10) \o <<DigitGlyphs[(n % 10) + 1]>>

\* lines 52-54, the body of the try
exif_date_try(exif) ==
    IF "DateTimeOriginal" \notin DOMAIN exif.Exif THEN Raise
    ELSE IF ~ exif.Exif.DateTimeOriginal.decodable THEN Raise
    ELSE IF ~ strptime_ok(exif.Exif.DateTimeOriginal.fields) THEN Raise
    ELSE format_int(exif.Exif.DateTimeOriginal.fields[3]) \o <<" ">>
         \o MONTHS_NL[exif.Exif.DateTimeOriginal.fields[2]]

exif_date(exif) == except_Exception(exif_date_try(exif), None)

(***************************************************************************)
(* dms_to_deg(dms, ref), in arc seconds (3600 times the code's degrees;    *)
(* exact for the denominators the model's images use).                     *)
(***************************************************************************)
dms_raises(dms) == dms[1][2] = 0 \/ dms[2][2] = 0 \/ dms[3][2] = 0
dms_to_deg(dms, ref) ==
    LET value == (3600 * dms[1][1]) \div dms[1][2]
                 + (60 * dms[2][1]) \div dms[2][2]
                 + dms[3][1] \div dms[3][2]
    IN  IF ref \in {"S", "W"} THEN 0 - value ELSE value

(***************************************************************************)
(* exif_city(exif).  resp is what geolocator.reverse answers when called:  *)
(* outcome "raise" (network failure), "none" (no result), "malformed" (a   *)
(* result without a usable raw record) or "location" with its raw dict.    *)
(***************************************************************************)
GPSTags == {"GPSLatitude", "GPSLatitudeRef", "GPSLongitude", "GPSLongitudeRef"}

\* lines 70-78 raise: a missing tag (KeyError) or a zero denominator
gps_raises(exif) ==
    \/ ~ (GPSTags \subseteq DOMAIN exif.GPS)
    \/ dms_raises(exif.GPS.GPSLatitude)
    \/ dms_raises(exif.GPS.GPSLongitude)

\* line 80 is reached: geolocator.reverse is called
reverse_called(exif) == geolocator /\ ~ gps_raises(exif)

\* the (lat, lon) of line 80
reverse_query(exif) ==
    << dms_to_deg(exif.GPS.GPSLatitude, exif.GPS.GPSLatitudeRef),
       dms_to_deg(exif.GPS.GPSLongitude, exif.GPS.GPSLongitudeRef) >>

\* line 83
address_place(addr) ==
    py_or(py_or(dict_get(addr, "city"), dict_get(addr, "town")),
          dict_get(addr, "village"))

\* lines 70-83, the body of the try, falling through to line 87
exif_city_try(exif, resp) ==
    IF gps_raises(exif) THEN Raise
    ELSE IF resp.outcome \in {"raise", "malformed"} THEN Raise
    ELSE IF resp.outcome = "location" /\ "address" \in DOMAIN resp.raw
         THEN address_place(resp.raw.address)
    ELSE None

exif_city(exif, resp) ==
    IF ~ geolocator THEN None
    ELSE except_Exception(exif_city_try(exif, resp), None)

(***************************************************************************)
(* The inputs: file names, images, answers of the geocoding service.       *)
(***************************************************************************)
Names ==
    { <<"B", ".", "J", "P", "G">>, <<"a", ".", "j", "p", "g">>,
      <<"a", "b", ".", "J", "p", "g">>, <<"a", ".", "j", "p", "e", "g">> }

Listings ==
    { s \in UNION { [1..n -> Names] : n \in 0..Cardinality(Names) } :
        \A i, j \in DOMAIN s : i # j => s[i] # s[j] }

Taken(Y, m, d) == [decodable |-> TRUE, fields |-> <<Y, m, d, 12, 30, 59>>]
DMS(d, m, s) == << <<d, 1>>, <<m, 1>>, <<s, 1>> >>
GPSFull(latref, lonref) ==
    [GPSLatitude |-> DMS(52, 22, 12), GPSLatitudeRef |-> latref,
     GPSLongitude |-> DMS(4, 53, 42), GPSLongitudeRef |-> lonref]
NoDict == [k \in {} |-> None]
Block(exifIFD, gpsIFD) == [valid |-> TRUE, Exif |-> exifIFD, GPS |-> gpsIFD]

Images ==
    { [size |-> <<4000, 3000>>,
       exif |-> Block([DateTimeOriginal |-> Taken(2023, 1, 3)], GPSFull("N", "E"))],
      [size |-> <<3000, 4000>>,
       exif |-> Block([DateTimeOriginal |-> Taken(2024, 3, 31)], GPSFull("S", "W"))],
      [size |-> <<2048, 2048>>,
       exif |-> Block([DateTimeOriginal |-> Taken(2024, 2, 29)], NoDict)],
      [size |-> <<640, 480>>,
       exif |-> Block([DateTimeOriginal |-> Taken(2023, 2, 29)], GPSFull("N", "E"))],
      [size |-> <<480, 640>>,
       exif |-> Block([DateTimeOriginal |-> Taken(2023, 13, 1)], NoDict)],
      [size |-> <<1, 1>>,
       exif |-> [valid |-> FALSE, Exif |-> NoDict, GPS |-> NoDict]],
      [size |-> <<4000, 3000>>,
       exif |-> Block(NoDict, GPSFull("N", "W"))],
      [size |-> <<3000, 4000>>,
       exif |-> Block([DateTimeOriginal |-> [decodable |-> FALSE, fields |-> <<>>]],
                      GPSFull("N", "E"))],
      [size |-> <<2048, 2048>>,
       exif |-> Block([DateTimeOriginal |-> [decodable |-> TRUE, fields |-> <<2023, 1>>]],
                      NoDict)],
      [size |-> <<5000, 100>>,
       exif |-> Block([DateTimeOriginal |-> Taken(2022, 12, 25)],
                      [GPSLatitude |-> DMS(52, 22, 12), GPSLatitudeRef |-> "N",
                       GPSLongitude |-> DMS(4, 53, 42)])],
      [size |-> <<100, 5000>>,
       exif |-> Block([DateTimeOriginal |-> Taken(2022, 5, 10)],
                      [GPSLatitude |-> << <<52, 1>>, <<22, 0>>, <<12, 1>> >>,
                       GPSLatitudeRef |-> "N",
                       GPSLongitude |-> DMS(4, 53, 42), GPSLongitudeRef |-> "E"])] }

Amsterdam == <<"A", "m", "s", "t", "e", "r", "d", "a", "m">>
Ee == <<"E", "e">>
Westerhaar ==
    <<"W", "e", "s", "t", "e", "r", "h", "a", "a", "r", "-", "V", "r", "i", "e",
      "z", "e", "n", "v", "e", "e", "n", "s", "e", "w", "i", "j", "k">>

Location(raw) == [outcome |-> "location", raw |-> raw]
Responses ==
    { [outcome |-> "raise", raw |-> NoDict],
      [outcome |-> "none", raw |-> NoDict],
      [outcome |-> "malformed", raw |-> NoDict],
      Location(NoDict),
      Location([address |-> NoDict]),
      Location([address |-> [city |-> Amsterdam]]),
      Location([address |-> [city |-> Amsterdam, town |-> Ee, village |-> Westerhaar]]),
      Location([address |-> [town |-> Ee, village |-> Westerhaar]]),
      Location([address |-> [city |-> <<>>, village |-> Westerhaar]]),
      Location([address |-> [city |-> <<>>, town |-> <<>>]]),
      Location([address |-> [city |-> <<>>, village |-> <<>>]]) }
\* geolocator.reverse was not called
NoCall == [outcome |-> "nocall", raw |-> NoDict]

(***************************************************************************)
(* main: lines 174-177.                                                    *)
(***************************************************************************)
Ord(c) ==
    CASE c = "." -> 46 [] c = "B" -> 66 [] c = "G" -> 71 [] c = "J" -> 74
      [] c = "P" -> 80 [] c = "a" -> 97 [] c = "b" -> 98 [] c = "e" -> 101
      [] c = "g" -> 103 [] c = "j" -> 106 [] c = "p" -> 112

lower_glyph(c) ==
    CASE c = "B" -> "b" [] c = "G" -> "g" [] c = "J" -> "j" [] c = "P" -> "p"
      [] OTHER -> c
\* f.lower()
lower(s) == [i \in DOMAIN s |-> lower_glyph(s[i])]
\* s.endswith(suffix)
endswith(s, suffix) ==
    /\ Len(s) >= Len(suffix)
    /\ SubSeq(s, Len(s) - Len(suffix) + 1, Len(s)) = suffix
\* f.lower().endswith(".jpg")
is_jpg(f) == endswith(lower(f), <<".", "j", "p", "g">>)

\* Python's a < b on str: by code point, a proper prefix first
RECURSIVE str_lt(_, _)
str_lt(a, b) ==
    IF b = <<>> THEN FALSE
    ELSE IF a = <<>> THEN TRUE
    ELSE IF Ord(Head(a)) < Ord(Head(b)) THEN TRUE
    ELSE IF Ord(Head(a)) > Ord(Head(b)) THEN FALSE
    ELSE str_lt(Tail(a), Tail(b))

RECURSIVE insert_sorted(_, _)
insert_sorted(x, s) ==
    IF s = <<>> THEN <<x>>
    ELSE IF str_lt(Head(s), x) THEN <<Head(s)>> \o insert_sorted(x, Tail(s))
    ELSE <<x>> \o s

RECURSIVE sorted(_)
sorted(s) == IF s = <<>> THEN <<>> ELSE insert_sorted(Head(s), sorted(Tail(s)))

\* the generator of lines 175-176
jpg_files(s) == SelectSeq(s, is_jpg)

unsorted_files(s) == jpg_files(s)
main_files(s) == sorted(jpg_files(s))

NoLocals ==
    /\ img' = None
    /\ square_size' = 0
    /\ bg' = None
    /\ date' = None
    /\ city' = None
    /\ label' = None
    /\ response' = None
    /\ calls' = <<>>
    /\ max_width' = 0
    /\ trimmed' = None
    /\ tried' = <<>>
    /\ ret' = None
    /\ text' = None
    /\ saved' = None
    /\ log' = <<>>

Globals == <<geolocator, FONT, listing>>
ClampLocals == <<trimmed, tried, ret>>

main_listdir ==
    /\ pc = "main"
    /\ files' = main_files(listing)
    /\ idx' = 1
    /\ pc' = "loop"
    /\ UNCHANGED <<Globals, written, failed, img, square_size, bg, date, city,
                   label, response, calls, max_width, ClampLocals, text, saved, log>>

main_done ==
    /\ pc = "loop"
    /\ idx > Len(files)
    /\ pc' = "done"
    /\ UNCHANGED <<Globals, files, idx, written, failed, img, square_size, bg,
                   date, city, label, response, calls, max_width, ClampLocals,
                   text, saved, log>>

(***************************************************************************)
(* process_image(filename), with filename = files[idx].                    *)
(***************************************************************************)
max2(a, b) == IF a >= b THEN a ELSE b

\* lines 117-119, Image.open raising: nothing catches it, main ends
process_image_open_fails ==
    /\ pc = "loop"
    /\ idx <= Len(files)
    /\ failed' = files[idx]
    /\ pc' = "aborted"
    /\ UNCHANGED <<Globals, files, idx, written, img, square_size, bg, date,
                   city, label, response, calls, max_width, ClampLocals, text,
                   saved, log>>

\* lines 117-119
process_image_open ==
    /\ pc = "loop"
    /\ idx <= Len(files)
    /\ \E image \in Images :
        /\ img' = image
        /\ square_size' = max2(image.size[1], image.size[2])
    /\ log' = <<"open">>
    /\ pc' = "opened"
    /\ UNCHANGED <<Globals, files, idx, written, failed, bg, date, city, label,
                   response, calls, max_width, ClampLocals, text, saved>>

\* lines 122-124
process_image_background ==
    /\ pc = "opened"
    /\ bg' = [size |-> <<square_size, square_size>>,
              paste |-> <<(square_size - img.size[1]) \div 2,
                          (square_size - img.size[2]) \div 2>>,
              text |-> None,
              anchor |-> None]
    /\ log' = Append(log, "background")
    /\ pc' = "background"
    /\ UNCHANGED <<Globals, files, idx, written, failed, img, square_size, date,
                   city, label, response, calls, max_width, ClampLocals, text, saved>>

\* line 127
process_image_normalize_skipped ==
    /\ pc = "background"
    /\ log' = Append(log, "resize")
    /\ pc' = "normalized"
    /\ UNCHANGED <<Globals, files, idx, written, failed, img, square_size, bg, date,
                   city, label, response, calls, max_width, ClampLocals, text, saved>>

process_image_normalize ==
    /\ pc = "background"
    /\ bg' = [bg EXCEPT !.size = <<OUTPUT_SIZE, OUTPUT_SIZE>>]
    /\ log' = Append(log, "resize")
    /\ pc' = "normalized"
    /\ UNCHANGED <<Globals, files, idx, written, failed, img, square_size, date,
                   city, label, response, calls, max_width, ClampLocals, text, saved>>

\* lines 136-139
make_label_date_or_city(d, c) ==
    IF truthy(d) \/ truthy(c) THEN <<d, c>> ELSE None
make_label(d, c) ==
    IF truthy(d) /\ truthy(c) THEN <<d, c>>
    ELSE IF truthy(d) THEN <<d, None>>
    ELSE None

\* lines 132-139, the body of the try
label_try(image, resp) ==
    IF ~ image.exif.valid THEN Raise
    ELSE IF exif_date(image.exif) = Raise \/ exif_city(image.exif, resp) = Raise
         THEN Raise
    ELSE make_label(exif_date(image.exif), exif_city(image.exif, resp))

\* lines 130-141
process_image_exif ==
    /\ pc = "normalized"
    /\ \E resp \in (IF reverse_called(img.exif) THEN Responses ELSE {NoCall}) :
        /\ response' = resp
        /\ IF except_Exception(label_try(img, resp), None) = Raise
           THEN /\ pc' = "aborted"
                /\ UNCHANGED <<label, log>>
           ELSE /\ label' = except_Exception(label_try(img, resp), None)
                /\ log' = Append(log, "extract")
                /\ pc' = "labelled"
        /\ date' = IF img.exif.valid /\ exif_date(img.exif) # Raise
                   THEN exif_date(img.exif) ELSE None
        /\ city' = IF /\ img.exif.valid
                      /\ exif_date(img.exif) # Raise
                      /\ exif_city(img.exif, resp) # Raise
                   THEN exif_city(img.exif, resp) ELSE None
    /\ calls' = IF reverse_called(img.exif) THEN <<reverse_query(img.exif)>> ELSE <<>>
    /\ UNCHANGED <<Globals, files, idx, written, failed, img, square_size, bg,
                   max_width, ClampLocals, text, saved>>

\* line 146
int_max_width_unscaled == OUTPUT_SIZE * MAX_TEXT_WIDTH_RATIO_NUM
int_max_width == (OUTPUT_SIZE * MAX_TEXT_WIDTH_RATIO_NUM) \div MAX_TEXT_WIDTH_RATIO_DEN

\* line 148: if label[1]
label_has_city_always(l) == TRUE
label_has_city(l) == truthy(l[2])

\* lines 144-149: a label with a city, clamp_city is called
process_image_call_clamp_city ==
    /\ pc = "labelled"
    /\ label # None
    /\ label_has_city(label)
    /\ max_width' = int_max_width
    /\ trimmed' = None
    /\ tried' = <<>>
    /\ ret' = None
    /\ log' = Append(log, "clamp_city")
    /\ pc' = "clamp_city"
    /\ UNCHANGED <<Globals, files, idx, written, failed, img, square_size, bg,
                   date, city, label, response, calls, text, saved>>

\* line 149: clamp_city has returned
process_image_text_clamped ==
    /\ pc = "clamp_city_return"
    /\ text' = ret
    /\ log' = Append(log, "build")
    /\ pc' = "text"
    /\ UNCHANGED <<Globals, files, idx, written, failed, img, square_size, bg,
                   date, city, label, response, calls, max_width, ClampLocals, saved>>

\* lines 144-151: a label without a city
process_image_text_date ==
    /\ pc = "labelled"
    /\ label # None
    /\ ~ label_has_city(label)
    /\ max_width' = int_max_width
    /\ text' = label[1]
    /\ log' = Append(log, "build")
    /\ pc' = "text"
    /\ UNCHANGED <<Globals, files, idx, written, failed, img, square_size, bg,
                   date, city, label, response, calls, ClampLocals, saved>>

\* lines 153-165
process_image_draw_text ==
    /\ pc = "text"
    /\ bg' = [bg EXCEPT
                !.text = text,
                !.anchor = << OUTPUT_SIZE - textlength(text) - TEXT_MARGIN,
                              OUTPUT_SIZE - (FONT.ascent + FONT.descent) - TEXT_MARGIN >>]
    /\ log' = Append(log, "render")
    /\ pc' = "drawn"
    /\ UNCHANGED <<Globals, files, idx, written, failed, img, square_size, date,
                   city, label, response, calls, max_width, ClampLocals, text, saved>>

\* line 167
process_image_save_early ==
    /\ pc \in {"normalized", "labelled", "drawn"}
    /\ saved' = bg
    /\ written' = Append(written, files[idx])
    /\ log' = Append(log, "persist")
    /\ pc' = "saved"
    /\ UNCHANGED <<Globals, files, idx, failed, img, square_size, bg, date, city,
                   label, response, calls, max_width, ClampLocals, text>>

process_image_save ==
    /\ pc = "drawn" \/ (pc = "labelled" /\ label = None)
    /\ saved' = bg
    /\ written' = Append(written, files[idx])
    /\ log' = Append(log, "persist")
    /\ pc' = "saved"
    /\ UNCHANGED <<Globals, files, idx, failed, img, square_size, bg, date,
                   city, label, response, calls, max_width, ClampLocals, text>>

\* process_image returns to the for-loop of line 178
process_image_return ==
    /\ pc = "saved"
    /\ idx' = idx + 1
    /\ NoLocals
    /\ pc' = "loop"
    /\ UNCHANGED <<Globals, files, written, failed>>

Init ==
    /\ geolocator \in BOOLEAN
    /\ FONT \in Fonts
    /\ listing \in Listings
    /\ pc = "main"
    /\ files = <<>>
    /\ idx = 0
    /\ written = <<>>
    /\ failed = None
    /\ img = None
    /\ square_size = 0
    /\ bg = None
    /\ date = None
    /\ city = None
    /\ label = None
    /\ response = None
    /\ calls = <<>>
    /\ max_width = 0
    /\ trimmed = None
    /\ tried = <<>>
    /\ ret = None
    /\ text = None
    /\ saved = None
    /\ log = <<>>

Next ==
    \/ main_listdir
    \/ process_image_open
    \/ process_image_open_fails
    \/ process_image_background
    \/ process_image_normalize
    \/ process_image_exif
    \/ process_image_call_clamp_city
    \/ clamp_city_base
    \/ clamp_city_trim
    \/ clamp_city_last_resort
    \/ process_image_text_clamped
    \/ process_image_text_date
    \/ process_image_draw_text
    \/ process_image_save
    \/ process_image_return
    \/ main_done

Spec == Init /\ [][Next]_vars

(***************************************************************************)
(* SpecClamp: clamp_city on its own, for every font (any advance per glyph *)
(* class), every max_width, and the dates and cities below.                *)
(***************************************************************************)
ClampDates == { <<"3", " ", "j", "a", "n">>, <<"1", "1", " ", "j", "u", "l">> }
ClampCities ==
    UNION { [1..n -> {"i", "m"}] : n \in 1..MaxCityLen }
ClampFonts ==
    { [advance |-> a, ascent |-> TEXT_SIZE, descent |-> 0] :
      a \in [GlyphClasses -> 0..MaxAdvance] }

ClampInit ==
    /\ FONT \in ClampFonts
    /\ label \in { <<d, c>> : d \in ClampDates, c \in ClampCities }
    /\ max_width \in 0..MaxWidthPx
    /\ pc = "clamp_city"
    /\ trimmed = None
    /\ tried = <<>>
    /\ ret = None
    /\ geolocator = FALSE
    /\ listing = <<>>
    /\ files = <<>>
    /\ idx = 0
    /\ written = <<>>
    /\ failed = None
    /\ img = None
    /\ square_size = 0
    /\ bg = None
    /\ date = label[1]
    /\ city = label[2]
    /\ response = None
    /\ calls = <<>>
    /\ text = None
    /\ saved = None
    /\ log = <<>>

ClampNext == clamp_city_base \/ clamp_city_trim \/ clamp_city_last_resort

SpecClamp == ClampInit /\ [][ClampNext]_vars

(***************************************************************************)
(* The properties.                                                         *)
(***************************************************************************)
Range(s) == { s[i] : i \in DOMAIN s }
\* the positions of the program after lines 130-141 of the current file
AfterExtract ==
    {"labelled", "clamp_city", "clamp_city_loop", "clamp_city_return", "text",
     "drawn", "saved"}
\* the candidate that keeps the first k characters of the city
KeepPrefix(k) == candidate(label[1], SubSeq(label[2], 1, k))
\* the prefix lengths whose candidate measures at most max_width
FittingPrefixes ==
    { k \in 1..(Len(label[2]) - 1) : textlength(KeepPrefix(k)) <= max_width }
MaxOf(S) == CHOOSE k \in S : \A j \in S : j <= k

\* C1: the string clamp_city returns measures at most max_width under the
\* font, or is exactly the date.
C1_FitsOrDate ==
    pc = "clamp_city_return" =>
        (textlength(ret) <= max_width \/ ret = label[1])

\* clamp_city returned a truncated label after measuring at least two candidates
C1_Witness ==
    /\ pc = "clamp_city_return"
    /\ Len(tried) >= 2
    /\ ret = tried[Len(tried)]
    /\ textlength(ret) <= max_width
    /\ textlength(label[1]) > 0

\* C2: when the untruncated label does not fit, the candidates measured are
\* those keeping len(city)-1, len(city)-2, ... characters of the city, in that
\* order and never fewer than one character; every candidate before the last
\* measured one did not fit; the value returned is the first candidate that
\* fits (the one keeping the most characters), or the date when none fits,
\* and it is never empty.
C2_TruncationOrder ==
    /\ Len(tried) <= Len(label[2]) - 1
    /\ \A i \in 1..Len(tried) : tried[i] = KeepPrefix(Len(label[2]) - i)
    /\ \A i \in 1..(Len(tried) - 1) : textlength(tried[i]) > max_width
    /\ tried # <<>> => textlength(base(label[1], label[2])) > max_width
    /\ pc = "clamp_city_return" =>
        /\ ret # <<>>
        /\ IF textlength(base(label[1], label[2])) <= max_width
           THEN ret = base(label[1], label[2]) /\ tried = <<>>
           ELSE IF FittingPrefixes # {}
           THEN /\ ret = KeepPrefix(MaxOf(FittingPrefixes))
                /\ Len(tried) = Len(label[2]) - MaxOf(FittingPrefixes)
           ELSE /\ ret = label[1]
                /\ Len(tried) = Len(label[2]) - 1

\* clamp_city fell back to the date after measuring every candidate of a
\* city of three or more characters
C2_Witness ==
    /\ pc = "clamp_city_return"
    /\ Len(tried) >= 2
    /\ Len(tried) = Len(label[2]) - 1
    /\ ret = label[1]
    /\ textlength(tried[Len(tried)]) > max_width

\* C3: whenever a label has been drawn, its anchor has both coordinates >= 0
\* and the text box ends inside the OUTPUT_SIZE x OUTPUT_SIZE canvas.
C3_AnchorInsideCanvas ==
    pc = "drawn" =>
        /\ bg.anchor[1] >= 0
        /\ bg.anchor[2] >= 0
        /\ bg.anchor[1] + textlength(bg.text) <= OUTPUT_SIZE
        /\ bg.anchor[2] + FONT.ascent + FONT.descent <= OUTPUT_SIZE

\* a label was drawn for an image with a city whose every candidate was too
\* wide: the text is the date alone
C3_Witness ==
    /\ pc = "drawn"
    /\ truthy(label[2])
    /\ bg.text = label[1]
    /\ Len(tried) = Len(label[2]) - 1

\* the steps of process_image in the order the claim gives them
ClaimedRank(step) ==
    CASE step = "open" -> 0
      [] step = "extract" -> 1
      [] step = "clamp_city" -> 2
      [] step = "build" -> 3
      [] step = "background" -> 4
      [] step = "resize" -> 5
      [] step = "render" -> 6
      [] step = "persist" -> 7
\* the steps of process_image in the order of the amended claim
AmendedRank(step) ==
    CASE step = "open" -> 0
      [] step = "background" -> 1
      [] step = "resize" -> 2
      [] step = "extract" -> 3
      [] step = "clamp_city" -> 4
      [] step = "build" -> 5
      [] step = "render" -> 6
      [] step = "persist" -> 7
\* every file before the current one has been persisted, in the order of files
EarlierFilesPersisted ==
    idx >= 1 =>
        /\ Len(written) \in {idx - 1, idx}
        /\ Len(written) <= Len(files)
        /\ \A i \in 1..Len(written) : written[i] = files[i]
        /\ (Len(written) = idx) = ("persist" \in Range(log))
        /\ pc = "loop" => Len(written) = idx - 1

\* C4, as claimed: the steps of a file come in the order extraction, label
\* build, composite, render, persist, and a file's steps start only after the
\* file before it has been persisted.
C4_ClaimedOrder ==
    /\ \A i, j \in DOMAIN log : i < j => ClaimedRank(log[i]) < ClaimedRank(log[j])
    /\ EarlierFilesPersisted

\* C4, amended: the steps of a file come in the order composite (background,
\* then resize), extraction, label build, render, persist; a file is
\* persisted only after its composite and its extraction, and after its
\* render when it has a label; a file's steps start only after the file
\* before it has been persisted.
C4_CodeOrder ==
    /\ \A i, j \in DOMAIN log : i < j => AmendedRank(log[i]) < AmendedRank(log[j])
    /\ "persist" \in Range(log) =>
        /\ {"background", "resize", "extract"} \subseteq Range(log)
        /\ label # None => {"build", "render"} \subseteq Range(log)
    /\ "render" \in Range(log) => "build" \in Range(log)
    /\ "extract" \in Range(log) => {"background", "resize"} \subseteq Range(log)
    /\ EarlierFilesPersisted

\* the second file of a batch has been persisted with a label whose city
\* went through clamp_city
C4_Witness ==
    /\ pc = "saved"
    /\ idx = 2
    /\ log = <<"open", "background", "resize", "extract", "clamp_city", "build",
               "render", "persist">>

\* C5: the background is built at max(w,h) x max(w,h); from the resize on,
\* through the drawing of the label and the save, the canvas is exactly
\* OUTPUT_SIZE x OUTPUT_SIZE; the anchor is placed against the canvas's own
\* size, whatever w and h are.
C5_CanvasSize ==
    /\ pc = "background" =>
        /\ bg.size[1] = bg.size[2]
        /\ bg.size[1] \in {img.size[1], img.size[2]}
        /\ bg.size[1] >= img.size[1] /\ bg.size[1] >= img.size[2]
    /\ pc \in {"normalized"} \cup AfterExtract =>
        bg.size = <<OUTPUT_SIZE, OUTPUT_SIZE>>
    /\ pc = "drawn" =>
        /\ bg.anchor[1] + textlength(bg.text) + TEXT_MARGIN = bg.size[1]
        /\ bg.anchor[2] + FONT.ascent + FONT.descent + TEXT_MARGIN = bg.size[2]
    /\ pc = "saved" => saved.size = <<OUTPUT_SIZE, OUTPUT_SIZE>>

\* a label was drawn on the canvas of a tall source image larger than the
\* output size
C5_Witness ==
    /\ pc = "drawn"
    /\ img.size[1] < img.size[2]
    /\ square_size > OUTPUT_SIZE
    /\ bg.text # None

\* the metadata of the current image could not yield a date
DateUnreadable ==
    \/ ~ img.exif.valid
    \/ "DateTimeOriginal" \notin DOMAIN img.exif.Exif
    \/ ~ img.exif.Exif.DateTimeOriginal.decodable
    \/ ~ strptime_ok(img.exif.Exif.DateTimeOriginal.fields)
\* the metadata and the geocoding service could not yield a place name
CityUnavailable ==
    \/ ~ img.exif.valid
    \/ ~ geolocator
    \/ ~ (GPSTags \subseteq DOMAIN img.exif.GPS)
    \/ dms_raises(img.exif.GPS.GPSLatitude)
    \/ dms_raises(img.exif.GPS.GPSLongitude)
    \/ response.outcome \in {"raise", "malformed", "none"}
    \/ "address" \notin DOMAIN response.raw

\* C6: main aborts only on a file that could not be opened; once an image is
\* open, any failure of the metadata block, the timestamp, the GPS tags or
\* the geocoding service leaves the date and/or the city absent, the file is
\* still saved, and a batch without unreadable files writes every file.
C6_MetadataErrorsRecovered ==
    /\ pc = "aborted" => (log = <<>> /\ failed = files[idx])
    /\ pc \in AfterExtract =>
        /\ DateUnreadable => (date = None /\ label = None)
        /\ CityUnavailable => city = None
        /\ ~ img.exif.valid => (date = None /\ city = None /\ label = None)
    /\ pc = "loop" => Len(written) = idx - 1
    /\ pc = "done" => (failed = None /\ written = files)

\* a file was saved although the geocoding service raised for it
C6_Witness ==
    /\ pc = "saved"
    /\ response.outcome = "raise"
    /\ truthy(date)
    /\ saved.text = date

\* C7: at the save, a label is on the canvas exactly when a date was
\* extracted; without a date no render step was taken and the saved canvas
\* is the un-annotated composite, whether or not a city was resolved.
C7_LabelIffDate ==
    pc = "saved" =>
        /\ truthy(date) = (saved.text # None)
        /\ truthy(date) = ("render" \in Range(log))
        /\ ~ truthy(date) =>
            saved = [size |-> <<OUTPUT_SIZE, OUTPUT_SIZE>>,
                     paste |-> <<(square_size - img.size[1]) \div 2,
                                 (square_size - img.size[2]) \div 2>>,
                     text |-> None,
                     anchor |-> None]

\* a file without a date, whose city was resolved, was saved un-annotated
C7_Witness ==
    /\ pc = "saved"
    /\ date = None
    /\ truthy(city)
    /\ saved.text = None

\* C8: with a date and no city, the text is the date unchanged, whatever its
\* width, and clamp_city was not called.
C8_DateOnly ==
    pc \in {"text", "drawn", "saved"} /\ truthy(date) /\ ~ truthy(city) =>
        /\ text = date
        /\ "clamp_city" \notin Range(log)
        /\ tried = <<>>
        /\ pc \in {"drawn", "saved"} => bg.text = date

\* a date wider than max_width was drawn unchanged for an image whose
\* geocoding lookup gave no place name
C8_Witness ==
    /\ pc = "drawn"
    /\ truthy(date)
    /\ city = None
    /\ Len(calls) = 1
    /\ bg.text = date
    /\ textlength(date) > max_width

\* the first non-empty value among city, town, village; None when there is none
FirstNonEmpty(addr) ==
    IF "city" \in DOMAIN addr /\ addr["city"] # <<>> THEN addr["city"]
    ELSE IF "town" \in DOMAIN addr /\ addr["town"] # <<>> THEN addr["town"]
    ELSE IF "village" \in DOMAIN addr /\ addr["village"] # <<>> THEN addr["village"]
    ELSE None

\* C9: exif_city returns the first non-empty value among city, town, village
\* when the collaborator is configured, the four GPS fields are present and
\* the lookup returned an address record, and None in every other case; it
\* calls the collaborator at most once per image, and not at all when the
\* collaborator is absent or a GPS field is missing.
C9_CityOrNone ==
    pc \in AfterExtract /\ img.exif.valid =>
        /\ Len(calls) <= 1
        /\ (~ geolocator \/ ~ (GPSTags \subseteq DOMAIN img.exif.GPS)) => calls = <<>>
        /\ city = IF /\ geolocator
                     /\ GPSTags \subseteq DOMAIN img.exif.GPS
                     /\ response.outcome = "location"
                     /\ "address" \in DOMAIN response.raw
                  THEN FirstNonEmpty(response.raw.address)
                  ELSE None

\* the names of Names whose lower-cased form ends in ".jpg"
JpgNames ==
    { <<"B", ".", "J", "P", "G">>, <<"a", ".", "j", "p", "g">>,
      <<"a", "b", ".", "J", "p", "g">> }
\* Names in ascending order of code points
AscendingNames ==
    << <<"B", ".", "J", "P", "G">>, <<"a", ".", "j", "p", "e", "g">>,
       <<"a", ".", "j", "p", "g">>, <<"a", "b", ".", "J", "p", "g">> >>
PositionOf(n) == CHOOSE i \in DOMAIN AscendingNames : AscendingNames[i] = n
\* the .jpg files of the listing, ascending, before the file that failed
ExpectedWritten ==
    LET wanted(n) ==
            /\ n \in Range(listing)
            /\ n \in JpgNames
            /\ failed # None => PositionOf(n) < PositionOf(failed)
    IN  SelectSeq(AscendingNames, wanted)

\* C10: when main has ended, the files written are the .jpg files of the
\* directory (extension compared case-insensitively), in ascending order of
\* file name, each once, up to but not including the file that could not be
\* opened; a normal end has written all of them.
C10_WrittenPrefix ==
    pc \in {"done", "aborted"} =>
        /\ written = ExpectedWritten
        /\ pc = "done" => failed = None
        /\ pc = "aborted" => (failed \in JpgNames /\ failed \in Range(listing))

\* main was aborted by the second of three .jpg files, listed out of order
C10_Witness ==
    /\ pc = "aborted"
    /\ Len(files) = 3
    /\ Len(written) = 1
    /\ listing # AscendingNames
    /\ Len(listing) = 4
    /\ listing[1] = AscendingNames[4]

=============================================================================
